---- MODULE Spec2Model ----
(***************************************************************************)
(* A model of granite's SparseStorage (src/src/list/sparse.rs) over a Vec  *)
(* backing list (src/src/list/alloc_impl.rs), seen through the ListStorage *)
(* and Storage contracts (src/src/list/mod.rs, src/src/lib.rs), and of     *)
(* Chain (src/src/list/chain/mod.rs), a list of Vec buffers.               *)
(*                                                                         *)
(* Indices are 0-based as in the source; At/SetAt translate to TLA+'s      *)
(* 1-based sequences.  Option<usize> is an integer with None == -1,        *)
(* Option<E> is a sequence of length 0 or 1.                               *)
(***************************************************************************)
EXTENDS Integers, Sequences, FiniteSets, Bags, TLC

\* Bounds of the model.
MaxLen == 4
MaxTrackedLen == 3
NumValues == 2
MaxOps == 5
MaxChainLen == 3
MaxStorages == 3
MaxPushes == 10
MaxLimit == 6
\* The width in bits of usize and isize in the model of the shift hooks.
WordBits == 4

Values == 1..NumValues

\* DummyMoveFix<u32> elements: a bare value whose hooks do nothing.
DummyElements == Values
\* Elements that track an index into their own storage (a back-reference).
TrackedElements == [val : Values, ref : 0..(MaxTrackedLen - 1)]

VARIABLES
    storage,    \* SparseStorage.storage: the backing list of slots
    hole_list,  \* SparseStorage.hole_list: Option<(length, first, last)>
    last,       \* the last call made on the storage and what it returned
    live,       \* keys returned by add and not removed since, with their element
    added,      \* number of add calls that returned
    removed,    \* number of key-addressed remove calls that returned
    pending,    \* the keys remove gave up and add has not returned since,
                \* in the order of their removal
    contents,   \* Chain.contents: the list of buffers
    chain_len,  \* Chain.len: the cached number of elements
    limit,      \* Chain.limit: the packed limit word (UsizeAndFlag)
    capacities, \* the capacity of each buffer of the chain; followed in
                \* SpecChainAlloc and SpecNew only, <<>> elsewhere
    elem_size   \* size_of::<T>() of the chain's element type

vars == <<storage, hole_list, last, live, added, removed, pending, contents, chain_len,
          limit, capacities, elem_size>>
ghost == <<live, added, removed, pending>>
sparse == <<storage, hole_list>>
chain == <<contents, chain_len, limit>>
alloc == <<capacities, elem_size>>

None == -1

At(list, index) == list[index + 1]
SetAt(list, index, x) == [list EXCEPT ![index + 1] = x]

---------------------------------------------------------------------------
\* Slot<T>: Element(T) or Hole(Option<usize>).

new_element(val) == [tag |-> "Element", element |-> val]
new_hole(val) == [tag |-> "Hole", link |-> val]
is_element(slot) == slot.tag = "Element"
is_hole(slot) == slot.tag = "Hole"
\* unsafe: the caller guarantees an Element slot.
element(slot) == slot.element
\* unsafe: the caller guarantees a Hole slot.
hole_link(slot) == slot.link
set_hole_link(slot, val) == [slot EXCEPT !.link = val]
element_checked(slot) == IF is_element(slot) THEN <<element(slot)>> ELSE <<>>

\* Faulty variant: punching an existing hole resets its link instead of leaving it alone.
Slot_punch_hole_relink(slot, next) ==
    IF is_element(slot)
    THEN [slot |-> new_hole(next), ret |-> <<element(slot)>>]
    ELSE [slot |-> new_hole(next), ret |-> <<>>]

\* Slot::punch_hole: the slot afterwards and the displaced element, if any.
Slot_punch_hole(slot, next) ==
    IF is_element(slot)
    THEN [slot |-> new_hole(next), ret |-> <<element(slot)>>]
    ELSE [slot |-> slot, ret |-> <<>>]

---------------------------------------------------------------------------
\* The backing list, Vec<Slot<E>>.  ok = FALSE is a panic of the Vec method.

Vec_push(list, x) == Append(list, x)
Vec_pop(list) ==
    IF Len(list) = 0
    THEN [list |-> list, ret |-> <<>>]
    ELSE [list |-> SubSeq(list, 1, Len(list) - 1), ret |-> <<list[Len(list)]>>]
Vec_remove(list, index) ==
    IF index >= Len(list)
    THEN [list |-> list, ok |-> FALSE, ret |-> <<>>]
    ELSE [list |-> SubSeq(list, 1, index) \o SubSeq(list, index + 2, Len(list)),
          ok |-> TRUE, ret |-> <<At(list, index)>>]
Vec_get(list, index) == IF index < Len(list) THEN <<At(list, index)>> ELSE <<>>
Vec_insert(list, index, x) ==
    IF index > Len(list)
    THEN [list |-> list, ok |-> FALSE]
    ELSE [list |-> SubSeq(list, 1, index) \o <<x>> \o SubSeq(list, index + 1, Len(list)),
          ok |-> TRUE]
Vec_truncate(list, n) == IF n >= Len(list) THEN list ELSE SubSeq(list, 1, n)

\* The capacity of a Vec, which the adapter hands through from the standard
\* library: with_capacity(n) allocates for exactly n elements, new() does
\* not allocate, and a push into a full Vec grows it to the largest of twice
\* its capacity, the length needed and the minimal non-zero capacity for
\* the element size.
Vec_with_capacity(capacity) == capacity
Vec_new == 0
MIN_NON_ZERO_CAP(size_of_T) ==
    IF size_of_T = 1 THEN 8 ELSE IF size_of_T <= 1024 THEN 4 ELSE 1
Max(a, b) == IF a >= b THEN a ELSE b
Vec_push_capacity(length, capacity, size_of_T) ==
    IF length < capacity
    THEN capacity
    ELSE Max(Max(capacity * 2, length + 1), MIN_NON_ZERO_CAP(size_of_T))

---------------------------------------------------------------------------
\* SparseStorage.

NoHoles == [some |-> FALSE, count |-> 0, first |-> 0, last |-> 0]
SomeHoles(count, first, lst) == [some |-> TRUE, count |-> count, first |-> first, last |-> lst]

num_holes(hl) == IF hl.some THEN hl.count ELSE 0
is_dense(hl) == num_holes(hl) = 0
len(st) == Len(st)

\* The outcome of a call: the storage afterwards, whether it returned or
\* panicked, the returned element (Option<E>) or key, and the MoveFix hooks
\* it invoked, in order.
\* SparseStorage::new and SparseStorage::with_capacity; the capacity of the
\* backing list is not part of the model.
SparseStorage_new == [storage |-> <<>>, hole_list |-> NoHoles]
SparseStorage_with_capacity(capacity) == [storage |-> <<>>, hole_list |-> NoHoles]
\* ListStorage::is_empty, given len().
is_empty(n) == n = 0

Returned(st, hl, ret, key, hooks) ==
    [storage |-> st, hole_list |-> hl, outcome |-> "ok", ret |-> ret, key |-> key, hooks |-> hooks]
Panicked(st, hl) ==
    [storage |-> st, hole_list |-> hl, outcome |-> "panic", ret |-> <<>>, key |-> None, hooks |-> <<>>]

\* Faulty variant: the hole count is bumped even when the slot already was a hole.
punch_hole_overcount(st, hl, index) ==
    LET p == Slot_punch_hole(At(st, index), None)
        st1 == SetAt(st, index, p.slot)
        hl1 == IF hl.some
               THEN SomeHoles(hl.count + 1, hl.first, index)
               ELSE SomeHoles(1, index, index)
    IN  IF p.ret = <<>>
        THEN [storage |-> st1, hole_list |-> hl1, ret |-> <<>>]
        ELSE IF hl.some
        THEN [storage |-> SetAt(st1, hl.last, set_hole_link(At(st1, hl.last), index)),
              hole_list |-> hl1, ret |-> p.ret]
        ELSE [storage |-> st1, hole_list |-> hl1, ret |-> p.ret]

\* Faulty variant: a new hole is linked in, but the hole count is not incremented.
punch_hole_nocount(st, hl, index) ==
    LET p == Slot_punch_hole(At(st, index), None)
        st1 == SetAt(st, index, p.slot)
    IN  IF p.ret = <<>>
        THEN [storage |-> st1, hole_list |-> hl, ret |-> <<>>]
        ELSE IF hl.some
        THEN [storage |-> SetAt(st1, hl.last, set_hole_link(At(st1, hl.last), index)),
              hole_list |-> SomeHoles(hl.count, hl.first, index),
              ret |-> p.ret]
        ELSE [storage |-> st1, hole_list |-> SomeHoles(1, index, index), ret |-> p.ret]

\* Faulty variant: the new hole is put at the head of the free list.
punch_hole_lifo(st, hl, index) ==
    LET p == Slot_punch_hole(At(st, index), None)
        st1 == SetAt(st, index, p.slot)
    IN  IF p.ret = <<>>
        THEN [storage |-> st1, hole_list |-> hl, ret |-> <<>>]
        ELSE IF hl.some
        THEN [storage |-> SetAt(st1, index, set_hole_link(At(st1, index), hl.first)),
              hole_list |-> SomeHoles(hl.count + 1, index, hl.last),
              ret |-> p.ret]
        ELSE [storage |-> st1, hole_list |-> SomeHoles(1, index, index), ret |-> p.ret]

\* SparseStorage::punch_hole (unsafe: index is within range).
punch_hole(st, hl, index) ==
    LET p == Slot_punch_hole(At(st, index), None)
        st1 == SetAt(st, index, p.slot)
    IN  IF p.ret = <<>>
        THEN [storage |-> st1, hole_list |-> hl, ret |-> <<>>]
        ELSE IF hl.some
        THEN [storage |-> SetAt(st1, hl.last, set_hole_link(At(st1, hl.last), index)),
              hole_list |-> SomeHoles(hl.count + 1, hl.first, index),
              ret |-> p.ret]
        ELSE [storage |-> st1, hole_list |-> SomeHoles(1, index, index), ret |-> p.ret]

\* Faulty variant: the trait's default remove_and_shiftfix (raw remove, then the
\* left-shift hook) instead of SparseStorage's hole-punching override.
remove_and_shiftfix_default(st, hl, index) ==
    LET r == Vec_remove(st, index)
    IN  IF ~r.ok
        THEN Panicked(st, hl)
        ELSE Returned(r.list, hl, <<element(r.ret[1])>>, None,
                      <<[hook |-> "fix_shift", a |-> index, b |-> -1]>>)

\* SparseStorage::remove_and_shiftfix, which is also Storage::remove(&index).
remove_and_shiftfix(st, hl, index) ==
    IF ~(len(st) > index)
    THEN Panicked(st, hl)                         \* assert!(self.len() > index)
    ELSE LET r == punch_hole(st, hl, index)
         IN  IF r.ret = <<>>
             THEN Panicked(r.storage, r.hole_list)   \* .expect(HOLE_PANIC_MSG)
             ELSE Returned(r.storage, r.hole_list, r.ret, None, <<>>)

\* SparseStorage::push: appends to the backing list, holes or not.
push(st, hl, e) == Returned(Vec_push(st, new_element(e)), hl, <<>>, None, <<>>)

\* Faulty variant: the trait's default add (push and return the last index), which
\* never reuses a hole.
add_no_reuse(st, hl, e) ==
    LET r == push(st, hl, e)
    IN  Returned(r.storage, r.hole_list, <<>>, len(r.storage) - 1, <<>>)

\* Faulty variant: the head hole is filled but the free-list head is not advanced.
add_stale_head(st, hl, e) ==
    IF hl.some
    THEN LET new_hole_count == hl.count - 1
             used_hole_index == hl.first
             st1 == SetAt(st, used_hole_index, new_element(e))
         IN  IF new_hole_count # 0
             THEN Returned(st1, SomeHoles(new_hole_count, hl.first, hl.last),
                           <<>>, used_hole_index, <<>>)
             ELSE Returned(st1, NoHoles, <<>>, used_hole_index, <<>>)
    ELSE LET r == push(st, hl, e)
         IN  Returned(r.storage, r.hole_list, <<>>, len(r.storage) - 1, <<>>)

\* SparseStorage::add.  next_hole.unwrap_or_else(unreachable_unchecked) is
\* reached with None only if the hole count and the links disagree.
add(st, hl, e) ==
    IF hl.some
    THEN LET new_hole_count == hl.count - 1
             used_hole_index == hl.first
             next_hole == hole_link(At(st, used_hole_index))
             st1 == SetAt(st, used_hole_index, new_element(e))
         IN  IF new_hole_count # 0
             THEN Returned(st1, SomeHoles(new_hole_count, next_hole, hl.last),
                           <<>>, used_hole_index, <<>>)
             ELSE Returned(st1, NoHoles, <<>>, used_hole_index, <<>>)
    ELSE LET r == push(st, hl, e)
         IN  Returned(r.storage, r.hole_list, <<>>, len(r.storage) - 1, <<>>)

\* SparseStorage::insert: a raw insert into the backing list, which ignores
\* the holes.
insert(st, hl, index, e) ==
    LET r == Vec_insert(st, index, new_element(e))
    IN  IF r.ok
        THEN Returned(r.list, hl, <<>>, None, <<>>)
        ELSE Panicked(st, hl)

\* SparseStorage::insert_and_shiftfix: insert, then the right-shift hook.
insert_and_shiftfix(st, hl, index, e) ==
    LET r == insert(st, hl, index, e)
    IN  IF r.outcome = "ok"
        THEN Returned(r.storage, r.hole_list, <<>>, None,
                      <<[hook |-> "fix_shift", a |-> index, b |-> 1]>>)
        ELSE r

\* SparseStorage::truncate.
truncate(st, hl, length) == Returned(Vec_truncate(st, length), hl, <<>>, None, <<>>)

\* The slots visited by following the next links from slot idx, for at most
\* fuel steps; the walk stops at None, out of bounds and at a slot that is
\* not a hole.
RECURSIVE walk(_, _, _)
walk(st, idx, fuel) ==
    IF fuel = 0 \/ idx = None \/ idx \notin 0..(len(st) - 1)
    THEN <<>>
    ELSE IF ~is_hole(At(st, idx))
    THEN <<>>
    ELSE <<idx>> \o walk(st, hole_link(At(st, idx)), fuel - 1)

HoleSlots(st) == {i \in 0..(len(st) - 1) : is_hole(At(st, i))}

\* The free-list invariant of a SparseStorage, which the unsafe blocks of
\* add and punch_hole take for granted.
FreeListOk(st, hl) ==
    /\ num_holes(hl) = Cardinality(HoleSlots(st))
    /\ hl.some <=> HoleSlots(st) # {}
    /\ hl.some =>
         LET w == walk(st, hl.first, len(st) + 1)
         IN  /\ Len(w) = num_holes(hl)
             /\ {w[k] : k \in 1..Len(w)} = HoleSlots(st)
             /\ \A j, k \in 1..Len(w) : j # k => w[j] # w[k]
             /\ hl.last \in HoleSlots(st)
             /\ Len(w) >= 1 => w[Len(w)] = hl.last
             /\ hl.last \in HoleSlots(st) => hole_link(At(st, hl.last)) = None

\* Faulty variant: a hole reads as an absent element instead of panicking.
get_lenient(st, hl, index) ==
    LET x == Vec_get(st, index)
    IN  IF x # <<>> /\ is_element(x[1])
        THEN Returned(st, hl, <<element(x[1])>>, None, <<>>)
        ELSE Returned(st, hl, <<>>, None, <<>>)

\* SparseStorage::get.
get(st, hl, index) ==
    LET x == Vec_get(st, index)
    IN  IF x = <<>>
        THEN Returned(st, hl, <<>>, None, <<>>)
        ELSE IF is_element(x[1])
        THEN Returned(st, hl, <<element(x[1])>>, None, <<>>)
        ELSE Panicked(st, hl)

\* SparseStorage::get_mut: the same match as get, on a mutable borrow.
get_mut(st, hl, index) ==
    LET x == Vec_get(st, index)
    IN  IF x = <<>>
        THEN Returned(st, hl, <<>>, None, <<>>)
        ELSE IF is_element(x[1])
        THEN Returned(st, hl, <<element(x[1])>>, None, <<>>)
        ELSE Panicked(st, hl)

\* SparseStorage::get_unchecked (unsafe: index < len()).
get_unchecked(st, hl, index) ==
    LET x == element_checked(At(st, index))
    IN  IF x = <<>> THEN Panicked(st, hl) ELSE Returned(st, hl, x, None, <<>>)

\* SparseStorage::get_unchecked_mut (unsafe: index < len()).
get_unchecked_mut(st, hl, index) ==
    LET x == element_checked(At(st, index))
    IN  IF x = <<>> THEN Panicked(st, hl) ELSE Returned(st, hl, x, None, <<>>)

\* Slot::unwrap: the element of an Element slot, a panic on a Hole.
Slot_unwrap(st, hl, slot) ==
    IF is_element(slot)
    THEN Returned(st, hl, <<element(slot)>>, None, <<>>)
    ELSE Panicked(st, hl)

\* Faulty variant: the raw removal is performed whether or not there are holes.
remove_unguarded(st, hl, index) ==
    LET r == Vec_remove(st, index)
    IN  IF ~r.ok THEN Panicked(st, hl) ELSE Slot_unwrap(r.list, hl, r.ret[1])

\* SparseStorage::remove (the raw, shifting removal).
remove(st, hl, index) ==
    IF is_dense(hl)
    THEN LET r == Vec_remove(st, index)
         IN  IF ~r.ok THEN Panicked(st, hl) ELSE Slot_unwrap(r.list, hl, r.ret[1])
    ELSE Panicked(st, hl)                         \* unimplemented!(..)

\* SparseStorage::pop.
pop(st, hl) ==
    IF is_dense(hl)
    THEN LET r == Vec_pop(st)
         IN  IF r.ret = <<>>
             THEN Returned(r.list, hl, <<>>, None, <<>>)
             ELSE Slot_unwrap(r.list, hl, r.ret[1])
    ELSE Panicked(st, hl)                         \* unimplemented!(..)

---------------------------------------------------------------------------
\* MoveFix::fix_move, as the element type implements it.  DummyMoveFix does
\* nothing.  An index-tracking element rewrites every stored reference equal
\* to previous_index into current_index.

fix_move(E, st, previous_index, current_index) ==
    IF E = "DummyMoveFix"
    THEN st
    ELSE [k \in 1..Len(st) |->
            IF is_element(st[k]) /\ element(st[k]).ref = previous_index
            THEN new_element([element(st[k]) EXCEPT !.ref = current_index])
            ELSE st[k]]

\* ptr::swap_nonoverlapping of the slots at i and j.
swap_slots(st, i, j) == [st EXCEPT ![i + 1] = st[j + 1], ![j + 1] = st[i + 1]]

\* The closure defragment_impl is given: defragment passes one that does
\* nothing (f = "none"), defragment_and_fix one that calls E::fix_move(s, j, i).
\* acc carries the backing list and the hooks invoked so far.
call_f(f, E, acc, j, i) ==
    IF f = "none"
    THEN acc
    ELSE [storage |-> fix_move(E, acc.storage, j, i),
          hooks |-> Append(acc.hooks, [hook |-> "fix_move", a |-> j, b |-> i])]

\* The inner loop, 'j: for j in (0..len).rev(), entered with slot i a hole.
\* It ends only at i == j: a swap is not followed by a break.
RECURSIVE defragment_inner_break(_, _, _, _, _)
RECURSIVE defragment_inner(_, _, _, _, _)
\* Faulty variant: the loop is left after the first swap.
defragment_inner_break(f, E, acc, i, j) ==
    IF i = j
    THEN acc
    ELSE IF is_element(At(acc.storage, j))
    THEN call_f(f, E, [acc EXCEPT !.storage = swap_slots(acc.storage, i, j)], j, i)
    ELSE defragment_inner_break(f, E, acc, i, j - 1)

defragment_inner(f, E, acc, i, j) ==
    IF i = j
    THEN acc
    ELSE defragment_inner(f, E,
            IF is_element(At(acc.storage, j))
            THEN call_f(f, E, [acc EXCEPT !.storage = swap_slots(acc.storage, i, j)], j, i)
            ELSE acc,
            i, j - 1)

\* The outer loop, for i in 0..self.len().
RECURSIVE defragment_outer(_, _, _, _, _)
defragment_outer(f, E, acc, i, n) ==
    IF i >= n
    THEN acc
    ELSE defragment_outer(f, E,
            IF is_hole(At(acc.storage, i))
            THEN defragment_inner(f, E, acc, i, n - 1)
            ELSE acc,
            i + 1, n)

\* for (_, _) in (0..self.len()).rev().zip(0..hole_count) { self.storage.pop(); }
RECURSIVE pop_times(_, _)
pop_times(list, n) ==
    IF n = 0 \/ Len(list) = 0 THEN list ELSE pop_times(Vec_pop(list).list, n - 1)

\* Faulty variant: one trailing hole too few is popped off.
defragment_impl_short(f, E, st, hl) ==
    IF ~hl.some
    THEN Returned(st, hl, <<>>, None, <<>>)
    ELSE LET acc == defragment_outer(f, E, [storage |-> st, hooks |-> <<>>], 0, len(st))
         IN  Returned(pop_times(acc.storage, hl.count - 1), NoHoles, <<>>, None, acc.hooks)

\* SparseStorage::defragment_impl.
defragment_impl(f, E, st, hl) ==
    IF ~hl.some
    THEN Returned(st, hl, <<>>, None, <<>>)          \* no holes, nothing to do
    ELSE LET acc == defragment_outer(f, E, [storage |-> st, hooks |-> <<>>], 0, len(st))
         IN  Returned(pop_times(acc.storage, hl.count), NoHoles, <<>>, None, acc.hooks)

defragment(E, st, hl) == defragment_impl("none", E, st, hl)
defragment_and_fix(E, st, hl) == defragment_impl("fix", E, st, hl)

---------------------------------------------------------------------------
\* UsizeAndFlag: a usize whose lowest bit is a flag.

FLAG_MASK == 1
\* x & FLAG_MASK and x & SIZE_MASK, for SIZE_MASK = !FLAG_MASK.
and_FLAG_MASK(x) == x % (FLAG_MASK + 1)
and_SIZE_MASK(x) == x - and_FLAG_MASK(x)

UsizeAndFlag_size(w) == and_SIZE_MASK(w)
UsizeAndFlag_flag(w) == and_FLAG_MASK(w) # 0
\* size and flag occupy disjoint bits, so | is +.
UsizeAndFlag_new(size, flag) == and_SIZE_MASK(size) + (IF flag THEN 1 ELSE 0)

---------------------------------------------------------------------------
\* Chain<T, Vec<T>, Vec<Vec<T>>>.  A chain is its list of buffers (contents),
\* its cached length (len) and its packed limit word.

\* The values of size_of::<T>() the model builds chains for.
ElementSizes == {512, 1024}

DEFAULT_LIMIT(size_of_T) ==
    LET base == 2048 \div size_of_T
    IN  IF base < 2 THEN 2 ELSE base
DEFAULT_ALLOCATE_TO_LIMIT == TRUE

Chain_limit(w) == UsizeAndFlag_size(w)
allocates_to_limit(w) == UsizeAndFlag_flag(w)
num_storages(c) == Len(c)

\* The outcome of a call on a chain.
ChainReturned(c, n, ret, key, hooks) ==
    [contents |-> c, len |-> n, outcome |-> "ok", ret |-> ret, key |-> key, hooks |-> hooks]
ChainPanicked(c, n) ==
    [contents |-> c, len |-> n, outcome |-> "panic", ret |-> <<>>, key |-> None, hooks |-> <<>>]

\* Faulty variant: the cached length starts at the requested capacity.
Chain_with_capacity_counted(size_of_T, capacity) ==
    [contents |-> <<<<>>>>, len |-> capacity,
     limit |-> UsizeAndFlag_new(DEFAULT_LIMIT(size_of_T), DEFAULT_ALLOCATE_TO_LIMIT)]

Chain_new(size_of_T) ==
    [contents |-> <<>>, len |-> 0,
     limit |-> UsizeAndFlag_new(DEFAULT_LIMIT(size_of_T), DEFAULT_ALLOCATE_TO_LIMIT)]
\* The capacity of a buffer is not part of the model: a buffer made by
\* S::with_capacity is an empty buffer.
Chain_with_capacity(size_of_T, capacity) ==
    [contents |-> <<<<>>>>, len |-> 0,
     limit |-> UsizeAndFlag_new(DEFAULT_LIMIT(size_of_T), DEFAULT_ALLOCATE_TO_LIMIT)]

push_allocated_storage(c, w) == Append(c, <<>>)   \* S::with_capacity(self.limit())
push_empty_storage(c) == Append(c, <<>>)          \* S::new()
push_storage(c, w) ==
    IF allocates_to_limit(w) THEN push_allocated_storage(c, w) ELSE push_empty_storage(c)

\* The loop every index-addressed method runs over the buffers, from buffer
\* k (1-based) on: index.overflowing_sub(st.len()) overflows (is_end) exactly
\* when index < st.len(), and then st is the buffer the index falls into.
RECURSIVE scan(_, _, _)
scan(c, k, index) ==
    IF k > Len(c)
    THEN [found |-> FALSE, buffer |-> 0, index |-> index]
    ELSE IF index < Len(c[k])
    THEN [found |-> TRUE, buffer |-> k, index |-> index]
    ELSE scan(c, k + 1, index - Len(c[k]))

Chain_insert(c, n, index, e) ==
    LET s == scan(c, 1, index)
    IN  IF s.found
        THEN ChainReturned([c EXCEPT ![s.buffer] = Vec_insert(@, s.index, e).list],
                           n + 1, <<>>, None, <<>>)
        ELSE ChainPanicked(c, n)                 \* panic!("index out of bounds")

\* Faulty variant: the buffer is indexed with the chain-wide index, not the rebased one.
Chain_remove_no_rebase(c, n, index) ==
    LET s == scan(c, 1, index)
    IN  IF s.found
        THEN LET r == Vec_remove(c[s.buffer], index)
             IN  IF r.ok
                 THEN ChainReturned([c EXCEPT ![s.buffer] = r.list], n - 1, r.ret, None, <<>>)
                 ELSE ChainPanicked(c, n - 1)
        ELSE ChainPanicked(c, n)

\* Faulty variant: the element is removed but the cached length is not decremented.
Chain_remove_stale_len(c, n, index) ==
    LET s == scan(c, 1, index)
    IN  IF s.found
        THEN LET r == Vec_remove(c[s.buffer], s.index)
             IN  ChainReturned([c EXCEPT ![s.buffer] = r.list], n, r.ret, None, <<>>)
        ELSE ChainPanicked(c, n)

Chain_remove(c, n, index) ==
    LET s == scan(c, 1, index)
    IN  IF s.found
        THEN LET r == Vec_remove(c[s.buffer], s.index)
             IN  ChainReturned([c EXCEPT ![s.buffer] = r.list], n - 1, r.ret, None, <<>>)
        ELSE ChainPanicked(c, n)                 \* panic!("index out of bounds")

\* Faulty variant: the buffer is indexed with the chain-wide index, not the rebased one.
Chain_get_no_rebase(c, index) ==
    LET s == scan(c, 1, index)
    IN  IF s.found THEN Vec_get(c[s.buffer], index) ELSE <<>>

Chain_get(c, index) ==
    LET s == scan(c, 1, index)
    IN  IF s.found THEN Vec_get(c[s.buffer], s.index) ELSE <<>>

\* Faulty variant: a full last buffer is still used when it holds exactly limit elements.
Chain_push_over_limit(c, n, w, e) ==
    LET lim == Chain_limit(w)
        use_last == Len(c) >= 1 /\ Len(c[Len(c)]) <= lim
        c1 == IF use_last THEN c ELSE push_storage(c, w)
    IN  ChainReturned([c1 EXCEPT ![Len(c1)] = Vec_push(@, e)], n + 1, <<>>, None, <<>>)

Chain_push(c, n, w, e) ==
    LET lim == Chain_limit(w)
        use_last == Len(c) >= 1 /\ Len(c[Len(c)]) < lim
        c1 == IF use_last THEN c ELSE push_storage(c, w)
    IN  ChainReturned([c1 EXCEPT ![Len(c1)] = Vec_push(@, e)], n + 1, <<>>, None, <<>>)

Chain_pop(c, n) ==
    IF Len(c) = 0
    THEN ChainReturned(c, n, <<>>, None, <<>>)       \* last_mut() is None
    ELSE LET p == Vec_pop(c[Len(c)])
         IN  IF p.ret # <<>>
             THEN ChainReturned([c EXCEPT ![Len(c)] = p.list], n - 1, p.ret, None, <<>>)
             ELSE ChainReturned(c, n, <<>>, None, <<>>)

RECURSIVE push_allocated_storages(_, _, _)
push_allocated_storages(c, w, times) ==
    IF times = 0 THEN c ELSE push_allocated_storages(push_allocated_storage(c, w), w, times - 1)

Chain_reserve(c, n, w, additional) ==
    LET lim == Chain_limit(w)
        num_full_storages == additional \div lim
        c1 == push_allocated_storages(c, w, num_full_storages)
    IN  ChainReturned(Append(c1, <<>>), n, <<>>, None, <<>>)

Chain_truncate(c, n, length) ==
    LET s == scan(c, 1, length)
    IN  IF s.found
        THEN ChainReturned([c EXCEPT ![s.buffer] = Vec_truncate(@, s.index)], n, <<>>, None, <<>>)
        ELSE ChainReturned(c, n, <<>>, None, <<>>)

\* The while loop of shrink_to_fit, at buffer index i with bound j.  Shrinking
\* a buffer's capacity changes nothing the model holds.
RECURSIVE shrink_to_fit_loop(_, _, _, _)
shrink_to_fit_loop(c, n, i, j) ==
    IF ~(i < j)
    THEN ChainReturned(c, n, <<>>, None, <<>>)
    ELSE IF Len(At(c, i)) = 0
    THEN LET r == Chain_remove(c, n, 0)              \* self.remove(0)
         IN  IF r.outcome = "panic"
             THEN ChainPanicked(r.contents, r.len)
             ELSE shrink_to_fit_loop(r.contents, r.len, i, j - 1)
    ELSE shrink_to_fit_loop(c, n, i + 1, j)

Chain_shrink_to_fit(c, n) == shrink_to_fit_loop(c, n, 0, Len(c))

\* The default ListStorage::remove_and_shiftfix, which a Vec buffer uses:
\* remove, then the left-shift hook from the removed position on.
\* Each hook record carries, as seen, the storage the hook was handed.
Vec_remove_and_shiftfix(list, index) ==
    LET r == Vec_remove(list, index)
    IN  [list |-> r.list, ok |-> r.ok, ret |-> r.ret,
         hooks |-> IF r.ok
                   THEN <<[hook |-> "fix_shift", a |-> index, b |-> -1, seen |-> r.list]>>
                   ELSE <<>>]

\* The hooks a buffer invoked, tagged with the position of that buffer in
\* contents: the notification names the buffer as its collection.
on_storage(hooks, k) ==
    [i \in 1..Len(hooks) |->
        [hook |-> hooks[i].hook, a |-> hooks[i].a, b |-> hooks[i].b, on |-> k]]

Chain_remove_and_shiftfix(c, n, index) ==
    LET s == scan(c, 1, index)
    IN  IF s.found
        THEN LET r == Vec_remove_and_shiftfix(c[s.buffer], s.index)
             IN  ChainReturned([c EXCEPT ![s.buffer] = r.list], n, r.ret, None,
                               on_storage(r.hooks, s.buffer))
        ELSE ChainPanicked(c, n)                 \* panic!("index out of bounds")

\* The default ListStorage::insert_and_shiftfix of a buffer: insert, then
\* fix_right_shift(self, index, 1).
\* A faulty insert_and_shiftfix that notifies before it inserts.
Vec_insert_and_shiftfix_hook_first(list, index, x) ==
    LET r == Vec_insert(list, index, x)
    IN  [list |-> r.list, ok |-> r.ok,
         hooks |-> <<[hook |-> "fix_shift", a |-> index, b |-> 1, seen |-> list]>>]

Vec_insert_and_shiftfix(list, index, x) ==
    LET r == Vec_insert(list, index, x)
    IN  [list |-> r.list, ok |-> r.ok,
         hooks |-> IF r.ok
                   THEN <<[hook |-> "fix_shift", a |-> index, b |-> 1, seen |-> r.list]>>
                   ELSE <<>>]

\* A faulty insert_and_shiftfix that hands the buffer the chain-wide index.
Chain_insert_and_shiftfix_global(c, n, index, e) ==
    LET s == scan(c, 1, index)
    IN  IF s.found
        THEN LET r == Vec_insert_and_shiftfix(c[s.buffer], index, e)
             IN  IF r.ok
                 THEN ChainReturned([c EXCEPT ![s.buffer] = r.list], n, <<>>, None,
                                    on_storage(r.hooks, s.buffer))
                 ELSE ChainPanicked(c, n)
        ELSE ChainPanicked(c, n)

Chain_insert_and_shiftfix(c, n, index, e) ==
    LET s == scan(c, 1, index)
    IN  IF s.found
        THEN LET r == Vec_insert_and_shiftfix(c[s.buffer], s.index, e)
             IN  ChainReturned([c EXCEPT ![s.buffer] = r.list], n, <<>>, None,
                               on_storage(r.hooks, s.buffer))
        ELSE ChainPanicked(c, n)                 \* panic!("index out of bounds")

Chain_add(c, n, w, e) ==
    LET r == Chain_push(c, n, w, e)
    IN  [r EXCEPT !.key = r.len - 1]

\* A faulty set_size that rebuilds the word without the flag.
UsizeAndFlag_set_size_drops_flag(w, size) == UsizeAndFlag_new(size, FALSE)

UsizeAndFlag_set_size(w, size) == UsizeAndFlag_new(size, UsizeAndFlag_flag(w))
UsizeAndFlag_set_flag(w, flag) == UsizeAndFlag_new(UsizeAndFlag_size(w), flag)

\* Chain::set_limit and Chain::allocate_to_limit: the limit word afterwards.
\* A faulty set_limit that stores the masked limit without the floor of 2.
Chain_set_limit_unfloored(w, lim) == UsizeAndFlag_set_size(w, and_SIZE_MASK(lim))

Chain_set_limit(w, lim) ==
    LET masked == and_SIZE_MASK(lim)
    IN  UsizeAndFlag_set_size(w, IF masked < 2 THEN 2 ELSE masked)
Chain_allocate_to_limit(w, flag) == UsizeAndFlag_set_flag(w, flag)

\* The capacity push_storage creates a buffer with.
push_allocated_storage_capacity(w) == Vec_with_capacity(Chain_limit(w))
push_empty_storage_capacity == Vec_new
\* Faulty variant: a new buffer is always allocated to the limit.
push_storage_capacity_eager(w) == push_allocated_storage_capacity(w)

push_storage_capacity(w) ==
    IF allocates_to_limit(w)
    THEN push_allocated_storage_capacity(w)
    ELSE push_empty_storage_capacity

\* Chain::push, seen from the capacities of the buffers: the capacities
\* afterwards and the capacity a newly created buffer started with (None
\* when the last buffer took the element).
Chain_push_capacities(c, caps, w, size_of_T) ==
    LET lim == Chain_limit(w)
        use_last == Len(c) >= 1 /\ Len(c[Len(c)]) < lim
        caps1 == IF use_last THEN caps ELSE Append(caps, push_storage_capacity(w))
        length == IF use_last THEN Len(c[Len(c)]) ELSE 0
    IN  [capacities |-> [caps1 EXCEPT ![Len(caps1)] = Vec_push_capacity(length, @, size_of_T)],
         created |-> IF use_last THEN None ELSE push_storage_capacity(w)]

\* Chain::capacity: the sum of the capacities of the buffers.
RECURSIVE Chain_capacity(_)
Chain_capacity(caps) ==
    IF caps = <<>> THEN 0 ELSE Head(caps) + Chain_capacity(Tail(caps))

\* The capacities of the buffers after Chain::reserve.
RECURSIVE push_allocated_storage_capacities(_, _, _)
push_allocated_storage_capacities(caps, w, times) ==
    IF times = 0
    THEN caps
    ELSE push_allocated_storage_capacities(
            Append(caps, push_allocated_storage_capacity(w)), w, times - 1)

Chain_reserve_capacities(caps, w, additional) ==
    LET lim == Chain_limit(w)
        num_full_storages == additional \div lim
        reserve_in_last_storage == additional % lim
    IN  Append(push_allocated_storage_capacities(caps, w, num_full_storages),
               Vec_with_capacity(reserve_in_last_storage))

\* Storage::contains_key and Storage::get of a ListStorage.
Storage_contains_key(n, index) == n > index
Storage_get(c, index) == Chain_get(c, index)

---------------------------------------------------------------------------
\* The calls a consumer makes.  Every call records itself in last, with the
\* length and hole count it found on entry.

NoCall ==
    [op |-> "new", arg |-> None, elem |-> <<>>, outcome |-> "ok", ret |-> <<>>,
     key |-> None, hooks |-> <<>>, len0 |-> 0, holes0 |-> 0]

Init ==
    /\ storage = <<>>           \* S::new()
    /\ hole_list = NoHoles      \* hole_list: None
    /\ last = NoCall
    /\ live = {}
    /\ added = 0
    /\ removed = 0
    /\ pending = <<>>
    /\ contents = Chain_new(1024).contents
    /\ chain_len = Chain_new(1024).len
    /\ limit = Chain_new(1024).limit
    /\ capacities = <<>>
    /\ elem_size = 1024

Call(op, arg, elem, r) ==
    /\ storage' = r.storage
    /\ hole_list' = r.hole_list
    /\ last' = [op |-> op, arg |-> arg, elem |-> elem, outcome |-> r.outcome,
                ret |-> r.ret, key |-> r.key, hooks |-> r.hooks,
                len0 |-> len(storage), holes0 |-> num_holes(hole_list)]
    /\ UNCHANGED <<chain, alloc>>

\* The model stops growing the backing list at cap slots.
CanGrow(cap) == len(storage) < cap
AddFits(cap) == ~is_dense(hole_list) \/ CanGrow(cap)

Add(Elements, cap) ==
    \E e \in Elements :
        /\ AddFits(cap)
        /\ Call("add", None, <<e>>, add(storage, hole_list, e))
        /\ UNCHANGED ghost

Push(Elements, cap) ==
    \E e \in Elements :
        /\ CanGrow(cap)
        /\ Call("push", None, <<e>>, push(storage, hole_list, e))
        /\ UNCHANGED ghost

RemoveAndShiftfix ==
    \E index \in 0..MaxLen :
        /\ Call("remove_and_shiftfix", index, <<>>, remove_and_shiftfix(storage, hole_list, index))
        /\ UNCHANGED ghost

Remove ==
    \E index \in 0..MaxLen :
        /\ Call("remove", index, <<>>, remove(storage, hole_list, index))
        /\ UNCHANGED ghost

Pop ==
    /\ Call("pop", None, <<>>, pop(storage, hole_list))
    /\ UNCHANGED ghost

Get ==
    \E index \in 0..MaxLen :
        /\ Call("get", index, <<>>, get(storage, hole_list, index))
        /\ UNCHANGED ghost

GetMut ==
    \E index \in 0..MaxLen :
        /\ Call("get_mut", index, <<>>, get_mut(storage, hole_list, index))
        /\ UNCHANGED ghost

\* The unchecked accessors are called within the backing list's length only:
\* beyond it they are undefined behaviour by contract.
GetUnchecked ==
    \E index \in 0..(len(storage) - 1) :
        /\ Call("get_unchecked", index, <<>>, get_unchecked(storage, hole_list, index))
        /\ UNCHANGED ghost

GetUncheckedMut ==
    \E index \in 0..(len(storage) - 1) :
        /\ Call("get_unchecked_mut", index, <<>>, get_unchecked_mut(storage, hole_list, index))
        /\ UNCHANGED ghost

Defragment(E) ==
    /\ Call("defragment", None, <<>>, defragment(E, storage, hole_list))
    /\ UNCHANGED ghost

DefragmentAndFix(E) ==
    /\ Call("defragment_and_fix", None, <<>>, defragment_and_fix(E, storage, hole_list))
    /\ UNCHANGED ghost

Insert(cap) ==
    \E index \in 0..cap, e \in DummyElements :
        /\ CanGrow(cap)
        /\ Call("insert", index, <<e>>, insert(storage, hole_list, index, e))
        /\ UNCHANGED ghost

InsertAndShiftfix(cap) ==
    \E index \in 0..cap, e \in DummyElements :
        /\ CanGrow(cap)
        /\ Call("insert_and_shiftfix", index, <<e>>,
                insert_and_shiftfix(storage, hole_list, index, e))
        /\ UNCHANGED ghost

Truncate(cap) ==
    \E length \in 0..cap :
        /\ Call("truncate", length, <<>>, truncate(storage, hole_list, length))
        /\ UNCHANGED ghost

\* Storage::add and Storage::remove on a SparseStorage (the key-addressed
\* contract), with the bookkeeping a consumer keeps of its keys.
StorageAdd ==
    \E e \in DummyElements :
        /\ AddFits(MaxLen)
        /\ added < MaxOps
        /\ LET r == add(storage, hole_list, e)
           IN  /\ Call("add", None, <<e>>, r)
               /\ live' = live \cup {<<r.key, e>>}
               /\ added' = added + 1
               /\ removed' = removed
               /\ pending' = SelectSeq(pending, LAMBDA k : k # r.key)

StorageRemove ==
    \E index \in 0..MaxLen :
        LET r == remove_and_shiftfix(storage, hole_list, index)
        IN  /\ Call("remove_and_shiftfix", index, <<>>, r)
            /\ live' = IF r.outcome = "ok" THEN {p \in live : p[1] # index} ELSE live
            /\ removed' = IF r.outcome = "ok" THEN removed + 1 ELSE removed
            /\ added' = added
            /\ pending' = IF r.outcome = "ok" THEN Append(pending, index) ELSE pending

---------------------------------------------------------------------------
\* Specifications.

\* A SparseStorage of DummyMoveFix elements used through ListStorage.
Next ==
    \/ Add(DummyElements, MaxLen)
    \/ Push(DummyElements, MaxLen)
    \/ RemoveAndShiftfix
    \/ Remove
    \/ Pop
    \/ Get
    \/ GetMut
    \/ GetUnchecked
    \/ GetUncheckedMut

Spec == Init /\ [][Next]_vars

\* A SparseStorage used through Storage::add and Storage::remove only.
NextKeys ==
    \/ StorageAdd
    \/ StorageRemove

SpecKeys == Init /\ [][NextKeys]_vars

\* A SparseStorage of index-tracking elements that is compacted.
NextDefrag ==
    \/ Add(TrackedElements, MaxTrackedLen)
    \/ Push(TrackedElements, MaxTrackedLen)
    \/ RemoveAndShiftfix
    \/ Defragment("Tracked")
    \/ DefragmentAndFix("Tracked")

SpecDefrag == Init /\ [][NextDefrag]_vars

\* A SparseStorage with holes that is inserted into and truncated.  On a
\* storage whose free list is broken add and punch_hole have undefined
\* behaviour, and the model does not follow them there.
NextEdit ==
    \/ FreeListOk(storage, hole_list) /\ Add(DummyElements, MaxTrackedLen)
    \/ FreeListOk(storage, hole_list) /\ RemoveAndShiftfix
    \/ Insert(MaxTrackedLen)
    \/ InsertAndShiftfix(MaxTrackedLen)
    \/ Truncate(MaxTrackedLen)

SpecEdit == Init /\ [][NextEdit]_vars

---------------------------------------------------------------------------
\* The calls a consumer makes on a Chain.

\* The elements a chain holds, in order, and how many they are.
RECURSIVE concat(_)
concat(c) == IF Len(c) = 0 THEN <<>> ELSE c[1] \o concat(Tail(c))
stored(c) == Len(concat(c))

NoChainCall ==
    [op |-> "new", arg |-> None, elem |-> <<>>, outcome |-> "ok", ret |-> <<>>,
     key |-> None, hooks |-> <<>>, len0 |-> 0, stored0 |-> 0, storages0 |-> 0]

\* A chain from Chain::new() or Chain::with_capacity(0), for each element size.
InitChain ==
    /\ storage = <<>>
    /\ hole_list = NoHoles
    /\ live = {}
    /\ added = 0
    /\ removed = 0
    /\ pending = <<>>
    /\ last = NoChainCall
    /\ \E size_of_T \in ElementSizes :
         \E ch \in {Chain_new(size_of_T), Chain_with_capacity(size_of_T, 0)} :
            /\ contents = ch.contents
            /\ chain_len = ch.len
            /\ limit = ch.limit
            /\ capacities = <<>>           \* capacity is not followed here
            /\ elem_size = size_of_T

ChainCall(op, arg, elem, r) ==
    /\ contents' = r.contents
    /\ chain_len' = r.len
    /\ limit' = limit
    /\ last' = [op |-> op, arg |-> arg, elem |-> elem, outcome |-> r.outcome,
                ret |-> r.ret, key |-> r.key, hooks |-> r.hooks,
                len0 |-> chain_len, stored0 |-> stored(contents),
                storages0 |-> num_storages(contents)]
    /\ UNCHANGED <<sparse, ghost, alloc>>

\* The model stops growing a chain at cap elements, stored or counted by
\* len(), and at MaxStorages buffers.
ChainFits(cap, r) ==
    /\ stored(r.contents) <= cap
    /\ r.len <= cap
    /\ num_storages(r.contents) <= MaxStorages

ChainPush(cap) ==
    \E e \in DummyElements :
        LET r == Chain_push(contents, chain_len, limit, e)
        IN  ChainFits(cap, r) /\ ChainCall("push", None, <<e>>, r)

ChainPop == ChainCall("pop", None, <<>>, Chain_pop(contents, chain_len))

ChainInsert ==
    \E index \in 0..MaxChainLen, e \in DummyElements :
        LET r == Chain_insert(contents, chain_len, index, e)
        IN  ChainFits(MaxChainLen, r) /\ ChainCall("insert", index, <<e>>, r)

ChainRemove ==
    \E index \in 0..MaxChainLen :
        ChainCall("remove", index, <<>>, Chain_remove(contents, chain_len, index))

ChainGet ==
    \E index \in 0..MaxChainLen :
        ChainCall("get", index, <<>>,
                  ChainReturned(contents, chain_len, Chain_get(contents, index), None, <<>>))

ChainReserve ==
    \E additional \in 0..MaxChainLen :
        LET r == Chain_reserve(contents, chain_len, limit, additional)
        IN  ChainFits(MaxChainLen, r) /\ ChainCall("reserve", additional, <<>>, r)

ChainTruncate ==
    \E length \in 0..MaxChainLen :
        ChainCall("truncate", length, <<>>, Chain_truncate(contents, chain_len, length))

ChainShrinkToFit ==
    ChainCall("shrink_to_fit", None, <<>>, Chain_shrink_to_fit(contents, chain_len))

\* Storage::add and Storage::remove on a Chain.
ChainStorageAdd ==
    \E e \in DummyElements :
        LET r == Chain_add(contents, chain_len, limit, e)
        IN  ChainFits(MaxChainLen, r) /\ ChainCall("add", None, <<e>>, r)

ChainStorageRemove ==
    \E index \in 0..MaxChainLen :
        ChainCall("remove_and_shiftfix", index, <<>>,
                  Chain_remove_and_shiftfix(contents, chain_len, index))

ChainInsertAndShiftfix ==
    \E index \in 0..MaxChainLen, e \in DummyElements :
        LET r == Chain_insert_and_shiftfix(contents, chain_len, index, e)
        IN  /\ ChainFits(MaxChainLen, r)
            /\ ChainCall("insert_and_shiftfix", index, <<e>>, r)

\* A Chain used through ListStorage.
NextChain ==
    \/ ChainPush(MaxChainLen)
    \/ ChainPop
    \/ ChainInsert
    \/ ChainRemove
    \/ ChainReserve

SpecChain == InitChain /\ [][NextChain]_vars

\* A Chain that is pushed to, inserted into, removed from and read.
NextChainGet ==
    \/ ChainPush(MaxChainLen)
    \/ ChainInsert
    \/ ChainRemove
    \/ ChainGet

SpecChainGet == InitChain /\ [][NextChainGet]_vars

\* A new Chain that is only pushed to.
NextChainPush == ChainPush(MaxPushes)

SpecChainPush == InitChain /\ [][NextChainPush]_vars

\* A Chain that is filled, emptied, truncated and shrunk.
NextChainFit ==
    \/ ChainPush(MaxChainLen)
    \/ ChainPop
    \/ ChainRemove
    \/ ChainTruncate
    \/ ChainShrinkToFit

SpecChainFit == InitChain /\ [][NextChainFit]_vars

\* A Chain used through Storage::add and Storage::remove only.
NextChainKeys ==
    \/ ChainStorageAdd
    \/ ChainStorageRemove

SpecChainKeys == InitChain /\ [][NextChainKeys]_vars

\* A Chain that is pushed to and edited with the shift-fixing calls.
NextChainShift ==
    \/ ChainPush(MaxChainLen)
    \/ ChainInsertAndShiftfix
    \/ ChainStorageRemove

SpecChainShift == InitChain /\ [][NextChainShift]_vars

\* A chain whose buffer capacities are followed: Chain::new() or
\* Chain::with_capacity(capacity), for each element size.
InitChainOf(Sizes) ==
    /\ storage = <<>>
    /\ hole_list = NoHoles
    /\ live = {}
    /\ added = 0
    /\ removed = 0
    /\ pending = <<>>
    /\ last = NoChainCall @@ [created |-> None]
    /\ \E size_of_T \in Sizes :
         /\ elem_size = size_of_T
         /\ \/ /\ contents = Chain_new(size_of_T).contents
               /\ chain_len = Chain_new(size_of_T).len
               /\ limit = Chain_new(size_of_T).limit
               /\ capacities = <<>>
            \/ \E capacity \in 0..MaxChainLen :
                 /\ contents = Chain_with_capacity(size_of_T, capacity).contents
                 /\ chain_len = Chain_with_capacity(size_of_T, capacity).len
                 /\ limit = Chain_with_capacity(size_of_T, capacity).limit
                 /\ capacities = <<Vec_with_capacity(capacity)>>

InitChainAlloc == InitChainOf(ElementSizes)

ChainAllocCall(op, arg, elem, created) ==
    last' = [op |-> op, arg |-> arg, elem |-> elem, outcome |-> "ok",
             ret |-> <<>>, key |-> None, hooks |-> <<>>,
             len0 |-> chain_len, stored0 |-> stored(contents),
             storages0 |-> num_storages(contents), created |-> created]

ChainAllocPush(Elements) ==
    \E e \in Elements :
        LET r == Chain_push(contents, chain_len, limit, e)
            k == Chain_push_capacities(contents, capacities, limit, elem_size)
        IN  /\ ChainFits(MaxChainLen, r)
            /\ contents' = r.contents
            /\ chain_len' = r.len
            /\ capacities' = k.capacities
            /\ ChainAllocCall("push", None, <<e>>, k.created)
            /\ UNCHANGED <<sparse, ghost, limit, elem_size>>

ChainSetLimit ==
    \E lim \in 0..MaxLimit :
        /\ limit' = Chain_set_limit(limit, lim)
        /\ ChainAllocCall("set_limit", lim, <<>>, None)
        /\ UNCHANGED <<sparse, ghost, contents, chain_len, alloc>>

ChainAllocateToLimit ==
    \E flag \in BOOLEAN :
        /\ limit' = Chain_allocate_to_limit(limit, flag)
        /\ ChainAllocCall("allocate_to_limit", IF flag THEN 1 ELSE 0, <<>>, None)
        /\ UNCHANGED <<sparse, ghost, contents, chain_len, alloc>>

\* A Chain that is configured and pushed to, with its buffer capacities.
NextChainAlloc ==
    \/ ChainAllocPush(DummyElements)
    \/ ChainSetLimit
    \/ ChainAllocateToLimit

SpecChainAlloc == InitChainAlloc /\ [][NextChainAlloc]_vars

\* MoveFix::fix_left_shift and fix_right_shift on a machine whose usize and
\* isize are WordBits wide.
USIZE_MAX == 2^WordBits - 1
ISIZE_MAX == 2^(WordBits - 1) - 1
ISIZE_MIN == -(2^(WordBits - 1))

\* isize::try_from(n) for a usize n: Ok(n) or Err.
isize_try_from(n) == IF n <= ISIZE_MAX THEN <<n>> ELSE <<>>
\* x.wrapping_neg() for an isize x.
wrapping_neg(x) == IF x = ISIZE_MIN THEN ISIZE_MIN ELSE -x

ShiftCalled(shifted_from, shifted_by) ==
    [outcome |-> "ok",
     hooks |-> <<[hook |-> "fix_shift", a |-> shifted_from, b |-> shifted_by]>>]
ShiftPanicked == [outcome |-> "panic", hooks |-> <<>>]

\* hint::unreachable_unchecked() reached: undefined behaviour.  The build
\* may stop the call or go on with any isize in place of the conversion's
\* result.
unreachable_unchecked == ISIZE_MIN..ISIZE_MAX

\* NonZeroIsize::new(x).expect("unexpected integer overflow"), then fix_shift.
expect_nonzero_then_fix_shift(shifted_from, x) ==
    IF x = 0 THEN ShiftPanicked ELSE ShiftCalled(shifted_from, x)

\* The outcomes of fix_left_shift(storage, shifted_from, shifted_by), a set
\* with more than one member where the behaviour is undefined.
fix_left_shift(shifted_from, shifted_by) ==
    LET c == isize_try_from(shifted_by)
    IN  IF c # <<>>
        THEN {expect_nonzero_then_fix_shift(shifted_from, wrapping_neg(c[1]))}
        ELSE {ShiftPanicked} \cup
             {expect_nonzero_then_fix_shift(shifted_from, wrapping_neg(x)) :
                  x \in unreachable_unchecked}

fix_right_shift(shifted_from, shifted_by) ==
    LET c == isize_try_from(shifted_by)
    IN  IF c # <<>>
        THEN {expect_nonzero_then_fix_shift(shifted_from, c[1])}
        ELSE {ShiftPanicked} \cup
             {expect_nonzero_then_fix_shift(shifted_from, x) :
                  x \in unreachable_unchecked}

\* A hook called directly on a new storage, with any index and any
\* NonZeroUsize.
ShiftRecord(op, shifted_from, shifted_by, r) ==
    [op |-> op, arg |-> shifted_from, by |-> shifted_by, elem |-> <<>>,
     outcome |-> r.outcome, ret |-> <<>>, key |-> None, hooks |-> r.hooks,
     len0 |-> len(storage), holes0 |-> num_holes(hole_list)]

FixLeftShift ==
    \E shifted_from \in 0..MaxLen, shifted_by \in 1..USIZE_MAX :
        \E r \in fix_left_shift(shifted_from, shifted_by) :
            /\ last = NoCall
            /\ last' = ShiftRecord("fix_left_shift", shifted_from, shifted_by, r)
            /\ UNCHANGED <<sparse, ghost, chain, alloc>>

FixRightShift ==
    \E shifted_from \in 0..MaxLen, shifted_by \in 1..USIZE_MAX :
        \E r \in fix_right_shift(shifted_from, shifted_by) :
            /\ last = NoCall
            /\ last' = ShiftRecord("fix_right_shift", shifted_from, shifted_by, r)
            /\ UNCHANGED <<sparse, ghost, chain, alloc>>

NextShift ==
    \/ FixLeftShift
    \/ FixRightShift

SpecShift == Init /\ [][NextShift]_vars

\* A Vec<E> used as a ListStorage on its own: storage holds the Vec, which
\* has no holes.  last.hooks lists the hooks that ran before the call
\* returned or unwound.
VecCall(op, arg, elem, r) ==
    /\ storage' = r.list
    /\ last' = [op |-> op, arg |-> arg, elem |-> elem,
                outcome |-> IF r.ok THEN "ok" ELSE "panic",
                ret |-> r.ret, key |-> None, hooks |-> r.hooks,
                len0 |-> Len(storage), holes0 |-> 0]
    /\ UNCHANGED <<hole_list, ghost, chain, alloc>>

VecPush ==
    \E e \in DummyElements :
        /\ Len(storage) < MaxLen
        /\ VecCall("push", None, <<e>>,
                   [list |-> Vec_push(storage, e), ok |-> TRUE, ret |-> <<>>, hooks |-> <<>>])

VecInsertAndShiftfix ==
    \E index \in 0..(MaxLen + 1), e \in DummyElements :
        LET r == Vec_insert_and_shiftfix(storage, index, e)
        IN  /\ Len(r.list) <= MaxLen
            /\ VecCall("insert_and_shiftfix", index, <<e>>,
                       [list |-> r.list, ok |-> r.ok, ret |-> <<>>, hooks |-> r.hooks])

VecRemoveAndShiftfix ==
    \E index \in 0..MaxLen :
        VecCall("remove_and_shiftfix", index, <<>>,
                Vec_remove_and_shiftfix(storage, index))

NextVec ==
    \/ VecPush
    \/ VecInsertAndShiftfix
    \/ VecRemoveAndShiftfix

SpecVec == Init /\ [][NextVec]_vars

\* Element sizes whose default limits are an even quotient, an odd quotient,
\* 1 and 0, and a Chain of each that is only configured.
ConfigElementSizes == {1, 3, 5, 512, 1024, 2048, 4096}

InitChainConfig == InitChainOf(ConfigElementSizes)

NextChainConfig ==
    \/ ChainSetLimit
    \/ ChainAllocateToLimit

SpecChainConfig == InitChainConfig /\ [][NextChainConfig]_vars

\* LinkedList<T>, the list that keeps the default ListStorage::truncate.
\* remove walks a cursor index steps from the front; the cursor passes from
\* the last element to the ghost position and from there to the front again,
\* and removing at the ghost position panics.
LinkedList_remove(list, index) ==
    LET position == index % (Len(list) + 1)
    IN  IF position = Len(list)
        THEN [list |-> list, ok |-> FALSE, ret |-> <<>>]   \* expect("index out of bounds")
        ELSE Vec_remove(list, position)

\* for i in first..=end { self.remove(i); }
RECURSIVE truncate_loop(_, _, _)
truncate_loop(list, i, end) ==
    IF i > end
    THEN [list |-> list, ok |-> TRUE]
    ELSE LET r == LinkedList_remove(list, i)
         IN  IF r.ok THEN truncate_loop(r.list, i + 1, end)
                     ELSE [list |-> list, ok |-> FALSE]

\* The default ListStorage::truncate.
default_truncate(list, length) ==
    LET current_length == Len(list)
    IN  IF length > current_length \/ current_length = 0
        THEN [list |-> list, ok |-> TRUE]
        ELSE truncate_loop(list, current_length - 1, length)

LinkedListPush ==
    \E e \in DummyElements :
        /\ Len(storage) < MaxLen
        /\ VecCall("push", None, <<e>>,
                   [list |-> Append(storage, e), ok |-> TRUE, ret |-> <<>>, hooks |-> <<>>])

DefaultTruncate ==
    \E length \in 0..(MaxLen + 1) :
        LET r == default_truncate(storage, length)
        IN  /\ Len(r.list) <= MaxLen
            /\ VecCall("truncate", length, <<>>,
                       [list |-> r.list, ok |-> r.ok, ret |-> <<>>, hooks |-> <<>>])

\* A LinkedList that is pushed to and truncated.
NextTruncate ==
    \/ LinkedListPush
    \/ DefaultTruncate

SpecTruncate == Init /\ [][NextTruncate]_vars

\* A Chain whose limit is changed while it is pushed to, popped from, inserted
\* into and removed from.
NextChainLimit ==
    \/ ChainPush(MaxChainLen)
    \/ ChainPop
    \/ ChainInsert
    \/ ChainRemove
    \/ ChainSetLimit

SpecChainLimit == InitChain /\ [][NextChainLimit]_vars

\* Constructing a storage anew, in place of the one held.
ConstructCall(on, op, arg) ==
    last' = [on |-> on, op |-> op, arg |-> arg, elem |-> <<>>, outcome |-> "ok",
             ret |-> <<>>, key |-> None, hooks |-> <<>>,
             len0 |-> IF on = "Chain" THEN chain_len ELSE len(storage)]

SparseNew ==
    /\ storage' = SparseStorage_new.storage
    /\ hole_list' = SparseStorage_new.hole_list
    /\ ConstructCall("SparseStorage", "new", None)
    /\ UNCHANGED <<ghost, chain, alloc>>

SparseWithCapacity ==
    \E capacity \in 0..MaxLen :
        /\ storage' = SparseStorage_with_capacity(capacity).storage
        /\ hole_list' = SparseStorage_with_capacity(capacity).hole_list
        /\ ConstructCall("SparseStorage", "with_capacity", capacity)
        /\ UNCHANGED <<ghost, chain, alloc>>

ChainNew ==
    /\ contents' = Chain_new(elem_size).contents
    /\ chain_len' = Chain_new(elem_size).len
    /\ limit' = Chain_new(elem_size).limit
    /\ capacities' = <<>>
    /\ ConstructCall("Chain", "new", None)
    /\ UNCHANGED <<sparse, ghost, elem_size>>

ChainWithCapacity ==
    \E capacity \in 0..MaxChainLen :
        /\ contents' = Chain_with_capacity(elem_size, capacity).contents
        /\ chain_len' = Chain_with_capacity(elem_size, capacity).len
        /\ limit' = Chain_with_capacity(elem_size, capacity).limit
        /\ capacities' = <<Vec_with_capacity(capacity)>>
        /\ ConstructCall("Chain", "with_capacity", capacity)
        /\ UNCHANGED <<sparse, ghost, elem_size>>

\* Storages that are filled, with one and the same element, and then
\* constructed anew.
Filler == {1}

NextNew ==
    \/ SparseNew
    \/ SparseWithCapacity
    \/ ChainNew
    \/ ChainWithCapacity
    \/ Push(Filler, MaxTrackedLen)
    \/ RemoveAndShiftfix
    \/ ChainAllocPush(Filler)

SpecNew == InitChainAlloc /\ [][NextNew]_vars

ChainAllocReserve ==
    \E additional \in 0..MaxChainLen :
        LET r == Chain_reserve(contents, chain_len, limit, additional)
        IN  /\ ChainFits(MaxChainLen, r)
            /\ contents' = r.contents
            /\ chain_len' = r.len
            /\ capacities' = Chain_reserve_capacities(capacities, limit, additional)
            /\ ChainAllocCall("reserve", additional, <<>>, None)
            /\ UNCHANGED <<sparse, ghost, limit, elem_size>>

\* A Chain that is pushed to and reserved for, with its buffer capacities.
NextChainReserve ==
    \/ ChainAllocPush(Filler)
    \/ ChainAllocReserve

SpecChainReserve == InitChainAlloc /\ [][NextChainReserve]_vars

---------------------------------------------------------------------------
\* Claims about SparseStorage used through ListStorage (Spec).

\* The call recorded in last' is remove_and_shiftfix on a slot that holds an
\* element in the state the call starts from.
RemovesElement ==
    /\ last'.op = "remove_and_shiftfix"
    /\ last'.arg < len(storage)
    /\ is_element(At(storage, last'.arg))

\* C1: remove_and_shiftfix(i) on an Element slot turns slot i into a Hole and
\* nothing else: the backing list keeps its length, every other slot that
\* holds an element holds the same element at the same index afterwards,
\* every other hole is still a hole, and no MoveFix hook is invoked.
C1_RemoveChangesOnlyThatSlot ==
    [][RemovesElement =>
        /\ last'.outcome = "ok"
        /\ len(storage') = len(storage)
        /\ is_hole(At(storage', last'.arg))
        /\ \A j \in (0..(len(storage) - 1)) \ {last'.arg} :
              /\ is_element(At(storage, j)) => At(storage', j) = At(storage, j)
              /\ is_hole(At(storage, j)) => is_hole(At(storage', j))
        /\ last'.hooks = <<>>]_vars

\* A removal from the middle returned, with live elements on both sides of
\* the new hole and an older hole already in the free list.
C1_Witness ==
    /\ last.op = "remove_and_shiftfix"
    /\ last.outcome = "ok"
    /\ last.holes0 >= 1
    /\ \E j \in 0..(len(storage) - 1) : j < last.arg /\ is_element(At(storage, j))
    /\ \E j \in 0..(len(storage) - 1) : j > last.arg /\ is_element(At(storage, j))

\* C4: remove_and_shiftfix(i) on an Element slot returns the element that was
\* stored at i, leaves len() unchanged and increases num_holes() by exactly 1.
C4_RemoveReturnsElementAndCountsHole ==
    [][RemovesElement =>
        /\ last'.outcome = "ok"
        /\ last'.ret = <<element(At(storage, last'.arg))>>
        /\ len(storage') = len(storage)
        /\ num_holes(hole_list') = num_holes(hole_list) + 1]_vars

\* The third hole in a row was punched and the element came back.
C4_Witness ==
    /\ last.op = "remove_and_shiftfix"
    /\ last.outcome = "ok"
    /\ last.ret # <<>>
    /\ last.holes0 = 2
    /\ num_holes(hole_list) = 3
    /\ len(storage) = last.len0

\* C5: add with num_holes() > 0 overwrites the free-list head hole with the
\* element and returns that index, leaving every other slot and len()
\* unchanged and num_holes() one lower, the free list being absent when the
\* count reaches 0; add on a dense storage appends the element to the tail,
\* so len() grows by 1, and returns the previous len().
C5_AddReusesHeadHoleOrAppends ==
    [][last'.op = "add" =>
        /\ last'.outcome = "ok"
        /\ IF num_holes(hole_list) > 0
           THEN /\ last'.key = hole_list.first
                /\ is_hole(At(storage, last'.key))
                /\ storage' = SetAt(storage, last'.key, new_element(last'.elem[1]))
                /\ len(storage') = len(storage)
                /\ num_holes(hole_list') = num_holes(hole_list) - 1
                /\ num_holes(hole_list') = 0 <=> ~hole_list'.some
           ELSE /\ storage' = storage \o <<new_element(last'.elem[1])>>
                /\ len(storage') = len(storage) + 1
                /\ last'.key = len(storage)
                /\ hole_list' = hole_list]_vars

\* An add reused a hole that was not at the tail while another hole remained.
C5_Witness ==
    /\ last.op = "add"
    /\ last.outcome = "ok"
    /\ last.holes0 >= 2
    /\ last.key < len(storage) - 1
    /\ num_holes(hole_list) = last.holes0 - 1
    /\ At(storage, last.key) = new_element(last.elem[1])

\* C8: remove_and_shiftfix(i) panics when i >= len() or when slot i is
\* already a Hole, and then the storage is as before the call: every slot
\* (hole links included), len(), num_holes() and the free-list head and tail.
C8_FailedRemoveChangesNothing ==
    [][(/\ last'.op = "remove_and_shiftfix"
        /\ (last'.arg >= len(storage) \/ is_hole(At(storage, last'.arg)))) =>
        /\ last'.outcome = "panic"
        /\ storage' = storage
        /\ hole_list' = hole_list]_vars

\* A removal of a slot that already was a hole, and one that links on to a
\* further hole, panicked.
C8_Witness ==
    /\ last.op = "remove_and_shiftfix"
    /\ last.outcome = "panic"
    /\ last.arg < len(storage)
    /\ is_hole(At(storage, last.arg))
    /\ hole_link(At(storage, last.arg)) # None

Accessors == {"get", "get_mut", "get_unchecked", "get_unchecked_mut"}

\* C6: get, get_mut, get_unchecked and get_unchecked_mut at an index within
\* the backing list's length whose slot is a Hole panic; get and get_mut at
\* an index >= len() return None; at an Element slot all four return that
\* element.
C6_AccessorsPanicOnHoles ==
    [][last'.op \in Accessors =>
        IF last'.arg >= len(storage)
        THEN last'.outcome = "ok" /\ last'.ret = <<>>
        ELSE IF is_hole(At(storage, last'.arg))
        THEN last'.outcome = "panic"
        ELSE last'.outcome = "ok" /\ last'.ret = <<element(At(storage, last'.arg))>>]_vars

\* An unchecked access within the length hit a hole and panicked.
C6_Witness ==
    /\ last.op = "get_unchecked"
    /\ last.outcome = "panic"
    /\ last.arg < len(storage)
    /\ is_hole(At(storage, last.arg))

\* The backing list without the slot at index.
WithoutSlot(list, index) ==
    [k \in 1..(Len(list) - 1) |-> IF k <= index THEN list[k] ELSE list[k + 1]]

\* C7: plain remove(index) and pop() succeed only on a dense storage, where
\* they do what the backing list's remove and pop do (remove panics on an
\* index out of range, pop returns None on an empty list); with
\* num_holes() > 0 they panic and leave every slot, len() and the free list
\* unchanged.
C7_RawRemoveAndPopNeedDense ==
    [][/\ last'.op = "remove" =>
            IF num_holes(hole_list) = 0 /\ last'.arg < len(storage)
            THEN /\ last'.outcome = "ok"
                 /\ last'.ret = <<element(At(storage, last'.arg))>>
                 /\ storage' = WithoutSlot(storage, last'.arg)
                 /\ hole_list' = hole_list
            ELSE /\ last'.outcome = "panic"
                 /\ storage' = storage
                 /\ hole_list' = hole_list
       /\ last'.op = "pop" =>
            IF num_holes(hole_list) = 0
            THEN /\ last'.outcome = "ok"
                 /\ hole_list' = hole_list
                 /\ IF len(storage) = 0
                    THEN last'.ret = <<>> /\ storage' = storage
                    ELSE /\ last'.ret = <<element(At(storage, len(storage) - 1))>>
                         /\ storage' = WithoutSlot(storage, len(storage) - 1)
            ELSE /\ last'.outcome = "panic"
                 /\ storage' = storage
                 /\ hole_list' = hole_list]_vars

\* A raw removal at an index that holds an element was refused because the
\* storage has holes.
C7_Witness ==
    /\ last.op = "remove"
    /\ last.outcome = "panic"
    /\ last.holes0 > 0
    /\ last.arg < len(storage)
    /\ is_element(At(storage, last.arg))

---------------------------------------------------------------------------
\* Claims about SparseStorage used through Storage::add/remove (SpecKeys).

\* C2: after any sequence of add and remove_and_shiftfix calls, every key
\* that add returned and that has not been removed since fetches the element
\* given to that add: get(k) == Some(v).
C2_LiveKeysFetchTheirElement ==
    \A p \in live :
        LET r == get(storage, hole_list, p[1])
        IN  r.outcome = "ok" /\ r.ret = <<p[2]>>

\* Two keys are live, one of them handed out again by an add that reused a
\* hole, while another hole is still open.
C2_Witness ==
    /\ last.op = "add"
    /\ last.holes0 >= 2
    /\ Cardinality(live) >= 2
    /\ removed >= 2
    /\ <<last.key, last.elem[1]>> \in live

\* C3 as stated: len() equals the number of elements added minus the number
\* of elements removed.
C3_LenIsAddedMinusRemoved ==
    len(storage) = added - removed

\* C3, amended: holes count towards len(), so it is len() - num_holes() that
\* equals the number of elements added minus the number of elements removed.
C3_LenMinusHolesIsAddedMinusRemoved ==
    len(storage) - num_holes(hole_list) = added - removed

\* Elements were added and removed and some holes are open.
C3_Witness ==
    /\ added >= 3
    /\ removed >= 2
    /\ num_holes(hole_list) >= 1
    /\ len(storage) > added - removed

\* Every element that was added has been removed again by its key.
RoundTripDone ==
    /\ added >= 1
    /\ removed = added
    /\ live = {}

\* C11 as stated: after adding n elements and removing all n of them by
\* key, len() == 0.
C11_RoundTripLenIsZero ==
    RoundTripDone => len(storage) = 0

\* C11, amended: after adding n elements and removing all n of them by key
\* in any order, every slot is a hole, so len() - num_holes() == 0 while
\* len() itself stays at the number of slots used; a subsequent add succeeds
\* without growing the list and returns one of the previously used positions.
C11_RoundTripLeavesOnlyHoles ==
    [][/\ RoundTripDone' =>
            /\ len(storage') - num_holes(hole_list') = 0
            /\ len(storage') >= 1
            /\ \A i \in 0..(len(storage') - 1) : is_hole(At(storage', i))
       /\ (RoundTripDone /\ last'.op = "add") =>
            /\ last'.outcome = "ok"
            /\ last'.key \in 0..(len(storage) - 1)
            /\ len(storage') = len(storage)
            /\ At(storage', last'.key) = new_element(last'.elem[1])
      ]_vars

\* An add has just run on a storage of two or more slots that were all
\* holes, after as many removals as additions.
C11_Witness ==
    /\ last.op = "add"
    /\ last.outcome = "ok"
    /\ last.len0 >= 2
    /\ last.holes0 = last.len0
    /\ removed >= 2
    /\ added = removed + 1
    /\ Cardinality(live) = 1

\* The keys that add returned and that have not been removed since.
live_keys == {p[1] : p \in live}

\* C21: Storage::contains_key(k) returns true exactly when k is the key of
\* a currently live element (returned by add and not removed since); on a
\* SparseStorage it is false for the key of a removed element whose position
\* has not been reused.
C21_ContainsKeyIsLiveness ==
    \A k \in 0..MaxLen :
        Storage_contains_key(len(storage), k) <=> k \in live_keys

\* C22: Storage::get(key) and get_mut(key) return None, without panicking,
\* whenever the key is absent from the storage, the key of an element removed
\* from a SparseStorage included, and Some(element) whenever
\* contains_key(key) is true.
C22_GetOfAbsentKeyIsNone ==
    \A k \in 0..MaxLen :
        LET r == get(storage, hole_list, k)
            m == get_mut(storage, hole_list, k)
        IN  /\ k \notin live_keys =>
                /\ r.outcome = "ok" /\ r.ret = <<>>
                /\ m.outcome = "ok" /\ m.ret = <<>>
            /\ Storage_contains_key(len(storage), k) =>
                /\ r.outcome = "ok" /\ r.ret # <<>>
                /\ m.outcome = "ok" /\ m.ret # <<>>

---------------------------------------------------------------------------
\* Claims about compaction (SpecDefrag).

Defragmenters == {"defragment", "defragment_and_fix"}

\* How many slots of the list hold an element with value v.
CountOfValue(st, v) ==
    Cardinality({k \in 1..Len(st) : is_element(st[k]) /\ element(st[k]).val = v})
\* How many slots of the list hold the element e.
CountOfElement(st, e) ==
    Cardinality({k \in 1..Len(st) : st[k] = new_element(e)})
CountOfHoles(st) == Cardinality({k \in 1..Len(st) : is_hole(st[k])})

\* C9: defragment and defragment_and_fix end with num_holes() == 0, no Hole
\* slot left in the backing list, len() equal to the previous len() minus the
\* previous num_holes(), and the multiset of live element values unchanged
\* (after defragment, which calls no hook, the multiset of whole elements).
C9_DefragmentRemovesHolesKeepsValues ==
    [][last'.op \in Defragmenters =>
        /\ last'.outcome = "ok"
        /\ num_holes(hole_list') = 0
        /\ CountOfHoles(storage') = 0
        /\ len(storage') = len(storage) - num_holes(hole_list)
        /\ \A v \in Values : CountOfValue(storage', v) = CountOfValue(storage, v)
        /\ last'.op = "defragment" =>
              \A e \in TrackedElements : CountOfElement(storage', e) = CountOfElement(storage, e)]_vars

\* A compaction with fixing started from two holes, relocated elements and
\* left a dense storage that still holds elements.
C9_Witness ==
    /\ last.op = "defragment_and_fix"
    /\ last.holes0 >= 2
    /\ last.hooks # <<>>
    /\ len(storage) = last.len0 - last.holes0
    /\ len(storage) >= 1

\* Every live element's stored back-reference is its own index.
AllTracked(st) ==
    \A k \in 1..Len(st) : is_element(st[k]) => element(st[k]).ref = k - 1

\* C10: if every live element stores a back-reference equal to its own key
\* before defragment_and_fix, then every surviving element's back-reference
\* equals its own key after it.
C10_DefragmentAndFixKeepsBackrefs ==
    [][(last'.op = "defragment_and_fix" /\ AllTracked(storage)) => AllTracked(storage')]_vars

\* C25: in every state reachable by add, push, remove_and_shiftfix,
\* defragment and defragment_and_fix, num_holes() equals the number of Hole
\* slots in the backing list, the free list is absent exactly when there is
\* no Hole slot, and following the next links from the head visits every
\* Hole slot exactly once (num_holes() of them, all in bounds) and ends at
\* the recorded tail, whose link is None.
C25_FreeListInvariant ==
    FreeListOk(storage, hole_list)

\* An add has just reused the head of a free list of two holes, leaving
\* the other hole as the whole list.
C25_Witness ==
    /\ last.op = "add"
    /\ last.holes0 = 2
    /\ num_holes(hole_list) = 1
    /\ last.key # hole_list.first
    /\ len(storage) = 3

---------------------------------------------------------------------------
\* Claims about raw edits of a SparseStorage with holes (SpecEdit).

RawEdits == {"insert", "insert_and_shiftfix", "truncate"}

\* C26: SparseStorage::insert, insert_and_shiftfix and truncate, called on
\* a storage that has holes, either fail before mutating anything or leave
\* the free-list invariant intact: afterwards the head, the tail and every
\* next link are in bounds and designate Hole slots and num_holes() equals
\* the number of Hole slots, so that a following add never overwrites a live
\* element.
C26_RawEditsKeepFreeList ==
    [][(/\ last'.op \in RawEdits
        /\ num_holes(hole_list) >= 1
        /\ FreeListOk(storage, hole_list)) =>
            \/ /\ last'.outcome = "panic"
               /\ storage' = storage
               /\ hole_list' = hole_list
            \/ /\ last'.outcome = "ok"
               /\ FreeListOk(storage', hole_list')
      ]_vars

---------------------------------------------------------------------------
\* Claims about Chain used through ListStorage (SpecChain, SpecChainGet,
\* SpecChainPush).

\* C12: after any sequence of push, pop, insert and remove calls on a Chain,
\* including calls that panic, the cached len() equals the sum of the lengths
\* of the buffers.
C12_LenIsSumOfBufferLengths ==
    chain_len = stored(contents)

\* An out-of-range insert or remove has just panicked on a chain of three
\* elements in two buffers, after an element was stored.
C12_Witness ==
    /\ last.op \in {"insert", "remove"}
    /\ last.outcome = "panic"
    /\ chain_len = 3
    /\ num_storages(contents) >= 2
    /\ \E k \in 1..Len(contents) : Len(contents[k]) = 1

\* The lengths of the buffers of a chain, in order.
buffer_lengths(c) == [k \in 1..Len(c) |-> Len(c[k])]

\* n elements in buffers of L: ceil(n / L) buffers, all of length L except
\* the last, which holds the remainder (or L when L divides n).
full_then_remainder(n, L) ==
    [k \in 1..((n + L - 1) \div L) |->
        IF k < (n + L - 1) \div L THEN L ELSE n - L * (((n + L - 1) \div L) - 1)]

\* C13: Chain::push appends to the last buffer if one exists and holds fewer
\* than limit() elements, and otherwise appends a new buffer holding the
\* element; after n >= 1 pushes into a new chain with limit L the buffers
\* are ceil(n / L) in number, of lengths L, ..., L, remainder.
C13_PushFillsLastBufferToLimit ==
    [][last'.op = "push" =>
        LET L == Chain_limit(limit)
            k == Len(contents)
            e == last'.elem[1]
        IN  /\ IF k >= 1 /\ Len(contents[k]) < L
               THEN contents' = [contents EXCEPT ![k] = Append(@, e)]
               ELSE contents' = Append(contents, <<e>>)
            /\ buffer_lengths(contents') = full_then_remainder(stored(contents'), L)
            /\ chain_len' = chain_len + 1
      ]_vars

\* Ten pushes into a chain with limit 4 left buffers of 4, 4 and 2 elements.
C13_Witness ==
    /\ last.op = "push"
    /\ Chain_limit(limit) = 4
    /\ chain_len = 10
    /\ buffer_lengths(contents) = <<4, 4, 2>>

\* What reading position i of the concatenation of the buffers gives.
concat_get(c, i) == IF i < stored(c) THEN <<At(concat(c), i)>> ELSE <<>>

\* C14: in every state reachable by push, insert and remove, Chain::get(i)
\* returns the i-th element of the concatenation of the buffers for i below
\* the number of stored elements and None for i at or beyond it, and leaves
\* the chain as it was; a push appends to the concatenation, so after n
\* pushes get(i) is the i-th pushed value.
C14_GetReadsConcatenation ==
    [][/\ last'.op = "get" =>
            /\ last'.outcome = "ok"
            /\ last'.ret = concat_get(contents, last'.arg)
            /\ contents' = contents /\ chain_len' = chain_len
       /\ \A i \in 0..MaxChainLen : Chain_get(contents', i) = concat_get(contents', i)
       /\ last'.op = "push" =>
            /\ concat(contents') = Append(concat(contents), last'.elem[1])
            /\ Chain_get(contents', stored(contents)) = last'.elem
      ]_vars

\* A get has just fetched an element that lies beyond the first buffer,
\* past a buffer that removals emptied.
C14_Witness ==
    /\ last.op = "get"
    /\ last.ret # <<>>
    /\ num_storages(contents) >= 2
    /\ last.arg >= Len(contents[1])
    /\ \E k \in 1..(Len(contents) - 1) : Len(contents[k]) = 0

\* C15: in every state reachable by push, pop, insert, remove and reserve,
\* Chain::pop removes and returns the last element of the chain (the one at
\* index len() - 1) and decreases len() by 1, and returns None only when the
\* chain holds no elements.
C15_PopTakesLastElement ==
    [][last'.op = "pop" =>
        IF stored(contents) = 0
        THEN last'.ret = <<>> /\ concat(contents') = concat(contents)
        ELSE /\ last'.ret = <<At(concat(contents), chain_len - 1)>>
             /\ concat(contents') = SubSeq(concat(contents), 1, stored(contents) - 1)
             /\ chain_len' = chain_len - 1
      ]_vars

\* C16: Chain::insert(index, x) succeeds for every index <= len(), the end
\* position and an empty chain included, puts x at position index with the
\* elements after it shifted right, and increases len() by 1; it panics only
\* if index > len().
C16_InsertAcceptsEveryPositionUpToLen ==
    [][last'.op = "insert" =>
        IF last'.arg <= chain_len
        THEN /\ last'.outcome = "ok"
             /\ concat(contents') =
                    SubSeq(concat(contents), 1, last'.arg) \o last'.elem
                    \o SubSeq(concat(contents), last'.arg + 1, stored(contents))
             /\ chain_len' = chain_len + 1
        ELSE last'.outcome = "panic"
      ]_vars

\* C17: Chain::remove(i) with i below the number of stored elements returns
\* the element at position i, shifts the later elements left and decreases
\* len() by 1; with i out of range it panics and leaves the buffers and
\* len() unchanged.
C17_RemoveTakesElementOrPanicsCleanly ==
    [][last'.op = "remove" =>
        IF last'.arg < stored(contents)
        THEN /\ last'.outcome = "ok"
             /\ last'.ret = <<At(concat(contents), last'.arg)>>
             /\ concat(contents') =
                    SubSeq(concat(contents), 1, last'.arg)
                    \o SubSeq(concat(contents), last'.arg + 2, stored(contents))
             /\ chain_len' = chain_len - 1
        ELSE /\ last'.outcome = "panic"
             /\ contents' = contents
             /\ chain_len' = chain_len
      ]_vars

\* A remove has just taken an element out of a buffer that is not the
\* first, with an element after it to shift left.
C17_Witness ==
    /\ last.op = "remove"
    /\ last.outcome = "ok"
    /\ num_storages(contents) >= 2
    /\ Len(contents[1]) >= 1
    /\ last.arg >= Len(contents[1])
    /\ last.arg < chain_len

---------------------------------------------------------------------------
\* Claims about truncating and shrinking a Chain (SpecChainFit).

\* C18: Chain::truncate(n) keeps the first n elements of the chain and drops
\* all the rest, across every buffer, so that afterwards len() is the
\* smaller of n and the previous len(); it has no effect if n is greater
\* than the current length.
C18_TruncateKeepsFirstN ==
    [][last'.op = "truncate" =>
        LET n == last'.arg
            kept == IF n < chain_len THEN n ELSE chain_len
        IN  /\ chain_len' = kept
            /\ concat(contents') = SubSeq(concat(contents), 1, kept)
      ]_vars

\* The number of empty buffers at the front of a chain.
RECURSIVE empty_leading(_)
empty_leading(c) ==
    IF Len(c) = 0 \/ Len(c[1]) # 0 THEN 0 ELSE 1 + empty_leading(Tail(c))

\* C19: Chain::shrink_to_fit removes empty leading buffers without touching
\* the stored data: it returns, get(i) for every i and len() are the same
\* before and after, and num_storages() has decreased by the number of empty
\* leading buffers.
C19_ShrinkToFitDropsEmptyBuffersOnly ==
    [][last'.op = "shrink_to_fit" =>
        /\ last'.outcome = "ok"
        /\ \A i \in 0..MaxChainLen : Chain_get(contents', i) = Chain_get(contents, i)
        /\ chain_len' = chain_len
        /\ num_storages(contents') = num_storages(contents) - empty_leading(contents)
      ]_vars

---------------------------------------------------------------------------
\* Claims about Chain used through Storage::add/remove (SpecChainKeys).

\* C20: after any sequence of Storage::add and Storage::remove calls on a
\* Chain, the key k that add returns satisfies contains_key(k), and get(k)
\* is Some of the element just added.
C20_AddedKeyFetchesItsElement ==
    [][last'.op = "add" =>
        /\ last'.outcome = "ok"
        /\ Storage_contains_key(chain_len', last'.key)
        /\ Storage_get(contents', last'.key) = last'.elem
      ]_vars

---------------------------------------------------------------------------
\* Claims about the buffers Chain::push allocates (SpecChainAlloc).

\* A push has just created a buffer.
PushCreatedBuffer == last'.op = "push" /\ last'.created # None

---------------------------------------------------------------------------
\* Claims about construction (SpecNew).

\* A storage of the given kind has just been constructed.
Constructed(on) ==
    /\ last'.op \in {"new", "with_capacity"}
    /\ last'.on = on

\* C24: new() and with_capacity(n) of SparseStorage and of Chain return an
\* empty storage: len() == 0 and is_empty() is true, get(i) is None for
\* every i, and for SparseStorage num_holes() == 0.
C24_ConstructorsReturnEmptyStorage ==
    [][/\ Constructed("SparseStorage") =>
            /\ len(storage') = 0
            /\ is_empty(len(storage'))
            /\ \A i \in 0..MaxLen :
                  /\ get(storage', hole_list', i).outcome = "ok"
                  /\ get(storage', hole_list', i).ret = <<>>
            /\ num_holes(hole_list') = 0
       /\ Constructed("Chain") =>
            /\ chain_len' = 0
            /\ is_empty(chain_len')
            /\ \A i \in 0..MaxChainLen : Chain_get(contents', i) = <<>>
      ]_vars

\* Chain::with_capacity(n) with n >= 1 has just replaced a chain that held
\* elements, next to a SparseStorage that holds a hole.
C24_Witness ==
    /\ last.op = "with_capacity"
    /\ last.on = "Chain"
    /\ last.arg >= 1
    /\ last.len0 >= 2
    /\ capacities = <<last.arg>>
    /\ num_holes(hole_list) >= 1

\* C27: Chain::insert_and_shiftfix and Chain::remove_and_shiftfix keep the
\* cached length in step with the buffers: a successful insert_and_shiftfix
\* raises len() by 1, a successful remove_and_shiftfix lowers it by 1, and
\* len() still equals the sum of the buffer lengths.
C27_ShiftfixKeepsLen ==
    [][/\ (last'.op = "insert_and_shiftfix" /\ last'.outcome = "ok")
            => chain_len' = chain_len + 1
       /\ (last'.op = "remove_and_shiftfix" /\ last'.outcome = "ok")
            => chain_len' = chain_len - 1
       /\ (last'.op \in {"insert_and_shiftfix", "remove_and_shiftfix"}
            /\ chain_len = stored(contents))
            => chain_len' = stored(contents')
      ]_vars

\* C28: on a Chain that is pushed to, popped from, inserted into, removed
\* from and whose limit is set, every buffer except possibly the last has
\* length <= limit().
C28_BuffersWithinLimit ==
    \A k \in 1..(num_storages(contents) - 1) :
        Len(contents[k]) <= Chain_limit(limit)

\* C29: Chain::shrink_to_fit returns without panicking in every reachable
\* chain state, chains with empty buffers included.
C29_ShrinkToFitNeverPanics ==
    [][last'.op = "shrink_to_fit" => last'.outcome = "ok"]_vars

\* The number of elements stored in the buffers before buffer k, and the
\* buffers that own chain index i.
before(c, k) == stored(SubSeq(c, 1, k - 1))
Owning(c, i) ==
    {k \in 1..Len(c) : before(c, k) <= i /\ i < before(c, k) + Len(c[k])}

C31_DefaultShiftfixNotifiesOnceAfterMutation ==
    [][last'.op \in {"insert_and_shiftfix", "remove_and_shiftfix"} =>
        LET i == last'.arg
            inserting == last'.op = "insert_and_shiftfix"
            in_bounds == IF inserting THEN i <= Len(storage) ELSE i < Len(storage)
        IN  IF in_bounds
            THEN /\ last'.outcome = "ok"
                 /\ storage' = IF inserting
                                THEN Vec_insert(storage, i, last'.elem[1]).list
                                ELSE Vec_remove(storage, i).list
                 /\ Len(last'.hooks) = 1
                 /\ last'.hooks[1].hook = "fix_shift"
                 /\ last'.hooks[1].a = i
                 /\ last'.hooks[1].b = (IF inserting THEN 1 ELSE -1)
                 /\ last'.hooks[1].seen = storage'
            ELSE /\ last'.outcome = "panic"
                 /\ last'.hooks = <<>>
                 /\ storage' = storage
      ]_vars

\* An insertion in the middle of a Vec, which shifted elements and notified.
C31_Witness ==
    /\ last.op = "insert_and_shiftfix"
    /\ last.outcome = "ok"
    /\ last.arg > 0
    /\ last.arg < Len(storage) - 1
    /\ last.hooks # <<>>

\* The backing list with every element replaced by the index it occupies,
\* so that a compaction of it shows where each element went.
Tagged(st) ==
    [k \in 1..Len(st) |-> IF is_element(st[k]) THEN new_element(k - 1) ELSE st[k]]

\* Where the fix_move reports, read in order, say the element that started
\* at index pos is: a report (previous, current) moves it when it is at
\* previous.
RECURSIVE Reported(_, _)
Reported(hooks, pos) ==
    IF hooks = <<>>
    THEN pos
    ELSE Reported(Tail(hooks), IF Head(hooks).a = pos THEN Head(hooks).b ELSE pos)

\* C32: during defragment_and_fix every relocation of an element is reported
\* by one fix_move(previous_index, current_index) that names the index the
\* element left and the index it arrived at, so that following an element's
\* reports from its index at the start of the call leads to its index at the
\* end; an element that ends at another index than it started has a report.
C32_EveryRelocationIsReported ==
    [][last'.op = "defragment_and_fix" =>
        LET r == defragment_impl("fix", "DummyMoveFix", Tagged(storage), hole_list)
        IN  /\ r.hooks = last'.hooks
            /\ \A k \in 1..Len(r.storage) :
                    is_element(r.storage[k]) =>
                        /\ Reported(last'.hooks, element(r.storage[k])) = k - 1
                        /\ element(r.storage[k]) # k - 1 =>
                              \E h \in 1..Len(last'.hooks) :
                                  last'.hooks[h].b = k - 1
      ]_vars

\* The number of swaps a compaction of the list performs: the closure is
\* called once after each swap.
swaps(st, hl) == Len(defragment_impl("fix", "DummyMoveFix", st, hl).hooks)

\* C33: defragment and defragment_and_fix perform exactly num_holes() swaps
\* (and defragment_and_fix makes as many fix_move calls), where num_holes()
\* is taken at entry, and then truncate the trailing holes off the backing
\* list.
C33_SwapsEqualHoleCount ==
    [][last'.op \in Defragmenters =>
        /\ swaps(storage, hole_list) = num_holes(hole_list)
        /\ last'.op = "defragment_and_fix" =>
                Len(last'.hooks) = num_holes(hole_list)
        /\ len(storage') = len(storage) - num_holes(hole_list)
        /\ CountOfHoles(storage') = 0
      ]_vars

\* The swaps a compaction owes to the holes of the list: a Hole slot at an
\* index i below the number of elements is swapped with each of the elements
\* behind it in turn, a Hole slot at or above that number with none.
swaps_per_hole(st, hl) ==
    LET elements == len(st) - num_holes(hl)
    IN  Cardinality({p \in HoleSlots(st) \X (1..len(st)) :
                        p[1] < elements /\ p[2] <= elements - p[1]})

\* C33, amended: defragment and defragment_and_fix do not count their
\* relocations.  For every Hole slot at an index i below len() - num_holes()
\* they perform len() - num_holes() - i swaps, and for the other Hole slots
\* none, so the number of swaps can be below or above num_holes();
\* defragment_and_fix makes one fix_move call per swap.  Then exactly
\* num_holes() trailing slots, all of them holes, are popped off the
\* backing list.
C33_SwapsPerHole ==
    [][last'.op \in Defragmenters =>
        /\ swaps(storage, hole_list) = swaps_per_hole(storage, hole_list)
        /\ last'.op = "defragment_and_fix" =>
                Len(last'.hooks) = swaps_per_hole(storage, hole_list)
        /\ len(storage') = len(storage) - num_holes(hole_list)
        /\ CountOfHoles(storage') = 0
      ]_vars

\* A compaction with fixing of a storage with one hole made two swaps.
C33_Witness ==
    /\ last.op = "defragment_and_fix"
    /\ last.holes0 = 1
    /\ Len(last.hooks) = 2
    /\ len(storage) = 2

\* limit() is even and at least 2.
LimitIsEvenAndAtLeast2 ==
    /\ Chain_limit(limit) % 2 = 0
    /\ Chain_limit(limit) >= 2

\* C34: Chain::limit() is even and at least 2 in every state, after new()
\* and with_capacity() for every element size and after any sequence of
\* set_limit(x) and allocate_to_limit(b) calls, and set_limit(x) leaves
\* limit() equal to the larger of 2 and x with its lowest bit cleared.
C34_LimitIsEvenAndAtLeast2 ==
    /\ []LimitIsEvenAndAtLeast2
    /\ [][last'.op = "set_limit" =>
            Chain_limit(limit') = Max(2, last'.arg - (last'.arg % 2))]_vars

\* set_limit(5) has just left limit() at 4 on a chain whose default limit
\* came from an odd quotient.
C34_Witness ==
    /\ last.op = "set_limit"
    /\ last.arg = 5
    /\ Chain_limit(limit) = 4
    /\ elem_size = 5

\* A call leaves the buffers, their capacities and len() as they were.
BuffersUntouched ==
    /\ contents' = contents
    /\ chain_len' = chain_len
    /\ capacities' = capacities

\* C35: the packed configuration word of a Chain behaves like two
\* independent fields: set_limit(x) does not change allocates_to_limit(),
\* allocate_to_limit(b) does not change limit() and leaves
\* allocates_to_limit() equal to b, and neither call changes the buffers,
\* the stored elements or len().
C35_LimitAndFlagAreIndependent ==
    [][/\ last'.op = "set_limit" =>
            /\ allocates_to_limit(limit') = allocates_to_limit(limit)
            /\ BuffersUntouched
       /\ last'.op = "allocate_to_limit" =>
            /\ Chain_limit(limit') = Chain_limit(limit)
            /\ allocates_to_limit(limit') = (last'.arg = 1)
            /\ BuffersUntouched
      ]_vars

\* allocate_to_limit(false) has just been called on a chain that holds
\* elements and whose limit had been set to 6: the limit is still 6.
C35_Witness ==
    /\ last.op = "allocate_to_limit"
    /\ last.arg = 0
    /\ ~allocates_to_limit(limit)
    /\ Chain_limit(limit) = 6
    /\ stored(contents) >= 2

\* C36: fix_left_shift(storage, from, n) calls fix_shift with shifted_from
\* equal to from and delta -n, fix_right_shift calls it with delta +n, and
\* when n does not fit a signed machine integer the call panics: no wrapped
\* or other delta is passed on.
C36_ShiftDeltaOrPanic ==
    [][last'.op \in {"fix_left_shift", "fix_right_shift"} =>
        IF last'.by <= ISIZE_MAX
        THEN /\ last'.outcome = "ok"
             /\ last'.hooks =
                   <<[hook |-> "fix_shift", a |-> last'.arg,
                      b |-> IF last'.op = "fix_left_shift"
                            THEN -last'.by ELSE last'.by]>>
        ELSE /\ last'.outcome = "panic"
             /\ last'.hooks = <<>>
      ]_vars

\* C37: the default ListStorage::truncate(len) shortens the collection to
\* its first len elements: for every current length c and every len <= c it
\* returns with the first len elements and nothing else, and for len > c it
\* has no effect.
C37_DefaultTruncateKeepsFirstLen ==
    [][last'.op = "truncate" =>
        /\ last'.outcome = "ok"
        /\ storage' = IF last'.arg <= Len(storage)
                       THEN SubSeq(storage, 1, last'.arg)
                       ELSE storage
      ]_vars

\* C38: Chain::reserve(additional) does nothing if capacity() is already at
\* least len() + additional, leaving num_storages() and the buffers as they
\* were; in every case the stored elements and len() are unchanged and
\* afterwards capacity() >= len() + additional.
C38_ReserveOnlyWhenNeeded ==
    [][last'.op = "reserve" =>
        /\ Chain_capacity(capacities) >= chain_len + last'.arg =>
                /\ contents' = contents
                /\ capacities' = capacities
        /\ concat(contents') = concat(contents)
        /\ chain_len' = chain_len
        /\ Chain_capacity(capacities') >= chain_len' + last'.arg
      ]_vars

\* C39: holes of a SparseStorage are reused in first-in-first-out order.
\* An add while removed keys are pending returns the key that was removed
\* first, so the n adds after removals of k1, ..., kn return k1, ..., kn in
\* that order; an add with no key pending finds the storage dense and
\* returns len().
C39_HolesAreReusedFirstInFirstOut ==
    [][last'.op = "add" =>
        /\ last'.outcome = "ok"
        /\ IF pending # <<>>
           THEN /\ last'.key = Head(pending)
                /\ pending' = Tail(pending)
           ELSE /\ is_dense(hole_list)
                /\ last'.key = len(storage)
        /\ pending' = <<>> => is_dense(hole_list')
      ]_vars

\* Keys 1 and 0 were removed in that order; the add that followed returned
\* 1, the key removed first, and 0 is still pending.
C39_Witness ==
    /\ last.op = "add"
    /\ last.key = 1
    /\ pending = <<0>>
    /\ num_holes(hole_list) = 1

\* The slot sequence with the holes deleted, and the values of the live
\* elements in slot order.
without_holes(st) == SelectSeq(st, is_element)
values_in_order(st) ==
    [k \in 1..Len(without_holes(st)) |-> element(without_holes(st)[k]).val]

\* C40: defragment and defragment_and_fix preserve the relative order of the
\* live elements: the elements come out in the order of the indices they
\* started at, so the dense storage that results is the previous slot
\* sequence with the holes deleted (up to the back-references that
\* defragment_and_fix rewrites through fix_move).
C40_DefragmentKeepsOrder ==
    [][last'.op \in Defragmenters =>
        /\ defragment_impl("fix", "DummyMoveFix", Tagged(storage), hole_list).storage
              = without_holes(Tagged(storage))
        /\ values_in_order(storage') = values_in_order(storage)
        /\ Len(storage') = Len(without_holes(storage))
        /\ last'.op = "defragment" => storage' = without_holes(storage)
      ]_vars

\* A compaction has just moved two elements with different values down
\* over a hole.
C40_Witness ==
    /\ last.op = "defragment_and_fix"
    /\ Len(last.hooks) >= 2
    /\ last.holes0 >= 1
    /\ last.len0 = 3
    /\ len(storage) = 2
    /\ element(storage[1]).val # element(storage[2]).val

====
